---- MODULE Spec2Model ----
(***************************************************************************)
(* Model of the poll aggregation engine of src/src/poll_agg.py:            *)
(* filter_by_date, parse_from_to_date, validate_candidates,                *)
(* aggregate_with_lead_time, aggregate_polls and the cell normalisation    *)
(* of get_polls.                                                           *)
(*                                                                         *)
(* A data frame is a sequence of rows [date, vals]; date is a day number   *)
(* and vals maps every series (candidate column) to a cell.  A cell is a   *)
(* fraction <<num, den>>; the missing value (NaN) is the cell <<0, 0>>.    *)
(***************************************************************************)
EXTENDS Integers, Sequences, FiniteSets, TLC

\* ------------------------------------------------------------------ bounds
MaxRows == 2
MaxLeadRows == 3
MaxDay == 2
MaxLead == 1
MaxStep == 2
MaxList == 2

\* ------------------------------------------------------------ value domain
Series == {"A", "B"}
Days == 0..MaxDay
NaN == <<0, 0>>
Cell(v) == <<v, 1>>
IsNaN(c) == c[2] = 0
AllNaN == [s \in Series |-> NaN]
NoneBound == [kind |-> "none", day |-> 0]
DateBound(d) == [kind |-> "date", day |-> d]
Bounds == {NoneBound} \cup {DateBound(d) : d \in Days}

\* The other values a caller can pass as a bound: a text that dateutil parses
\* to a day, a text it cannot parse, the empty text, a number (23.04) and the
\* number 0.
TextBound(d) == [kind |-> "text", day |-> d]
BadText == [kind |-> "badtext", day |-> 0]
EmptyText == [kind |-> "empty", day |-> 0]
Number == [kind |-> "number", day |-> 0]
Zero == [kind |-> "zero", day |-> 0]
AnyBounds == Bounds \cup {TextBound(d) : d \in Days} \cup {BadText, EmptyText, Number, Zero}

\* `if from_date:` is false for None, '' and 0.
Truthy(b) == b.kind \notin {"none", "empty", "zero"}

\* The exception date_parser.parse(x) ends in, "none" when it returns a date.
ParseError(b) ==
    IF b.kind = "text" THEN "none"
    ELSE IF b.kind \in {"badtext", "empty"} THEN "ValueError"
    ELSE "TypeError"

\* Column labels of a frame.
BASE_COLS == <<"date", "pollster", "n">>
ToSet(xs) == {xs[i] : i \in 1..Len(xs)}
PollColumns == <<"date", "pollster", "n", "A", "B">>
MixedColumns == <<"B", "date", "pollster", "A", "n">>
NoDateColumns == <<"pollster", "n", "A", "B">>
LeadColumns == <<"date", "A", "B">>

\* The candidates argument: a string, or a list whose items are strings or not.
Name(v) == [str |-> TRUE, v |-> v]
NonStr == [str |-> FALSE, v |-> "7"]
StrSel(v) == [kind |-> "str", v |-> v, items |-> <<>>]
ListSel(items) == [kind |-> "list", v |-> "", items |-> items]
All == StrSel("all")
Items == {Name(v) : v \in {"A", "B", "C", "date"}} \cup {NonStr}
Selectors == {StrSel(v) : v \in {"all", "A", "B", "C", "date"}}
                 \cup {ListSel(l) : l \in UNION {[1..n -> Items] : n \in 0..MaxList}}
\* The rows of a frame: both series present, only A present, none present.
RowVals == {[s \in Series |-> Cell(40)],
            [s \in Series |-> IF s = "A" THEN Cell(70) ELSE NaN],
            [s \in Series |-> NaN]}
RowSet == [date : Days, vals : RowVals]

\* Tables of at most max rows, listed by ascending date.  The aggregates do
\* not depend on the order of the rows of one date, so one order stands for
\* all: fuller rows first.
Fill(v) == Cardinality({s \in Series : ~IsNaN(v[s])})
InOrder(r1, r2) == r1.date < r2.date \/ (r1.date = r2.date /\ Fill(r1.vals) >= Fill(r2.vals))
TablesUpTo(max) == UNION {{t \in [1..n -> RowSet] : \A i \in 1..(n - 1) : InOrder(t[i], t[i + 1])} : n \in 0..max}
Tables == TablesUpTo(MaxRows)
LeadTables == TablesUpTo(MaxLeadRows)

\* ------------------------------------------------------------- arithmetic
RECURSIVE GCD(_, _)
GCD(a, b) == IF b = 0 THEN a ELSE GCD(b, a % b)

Reduce(n, d) == LET g == GCD(n, d) IN <<n \div g, d \div g>>

RECURSIVE SumSeq(_)
SumSeq(xs) == IF xs = <<>> THEN 0 ELSE Head(xs) + SumSeq(Tail(xs))

RECURSIVE InsertSorted(_, _)
InsertSorted(x, xs) ==
    IF xs = <<>> THEN <<x>>
    ELSE IF x <= Head(xs) THEN <<x>> \o xs
    ELSE <<Head(xs)>> \o InsertSorted(x, Tail(xs))

RECURSIVE SortInts(_)
SortInts(xs) == IF xs = <<>> THEN <<>> ELSE InsertSorted(Head(xs), SortInts(Tail(xs)))

\* pandas mean / median of one column: NaN cells are skipped, and a column
\* without a present value gives NaN.
Mean(xs) == IF xs = <<>> THEN NaN ELSE Reduce(SumSeq(xs), Len(xs))

Median(xs) ==
    IF xs = <<>> THEN NaN
    ELSE LET s == SortInts(xs)
             n == Len(s)
         IN IF n % 2 = 1 THEN Cell(s[(n + 1) \div 2])
            ELSE Reduce(s[n \div 2] + s[(n \div 2) + 1], 2)

\* Faulty variant: a missing cell counted as the value 0.
ColValues_ZeroFill(df, s) == [i \in 1..Len(df) |-> df[i].vals[s][1]]

ColValues(df, s) ==
    LET present == SelectSeq(df, LAMBDA r : ~IsNaN(r.vals[s]))
    IN [i \in 1..Len(present) |-> present[i].vals[s][1]]

\* DataFrame.mean() / DataFrame.median(): one cell per series column.
AggCols(df, agg) ==
    [s \in Series |-> IF agg = "mean" THEN Mean(ColValues(df, s)) ELSE Median(ColValues(df, s))]

\* ------------------------------------------------------------ data frames
DateSet(df) == {df[i].date : i \in 1..Len(df)}

RECURSIVE SetToSortedSeq(_)
SetToSortedSeq(S) ==
    IF S = {} THEN <<>>
    ELSE LET m == CHOOSE x \in S : \A y \in S : x <= y
         IN <<m>> \o SetToSortedSeq(S \ {m})

RECURSIVE InsertRow(_, _)
InsertRow(r, rows) ==
    IF rows = <<>> THEN <<r>>
    ELSE IF r.date < Head(rows).date THEN <<r>> \o rows
    ELSE <<Head(rows)>> \o InsertRow(r, Tail(rows))

\* out_df.sort_values(by='date').reset_index(drop=True)
RECURSIVE SortByDate(_)
SortByDate(rows) ==
    IF rows = <<>> THEN <<>>
    ELSE InsertRow(rows[Len(rows)], SortByDate(SubSeq(rows, 1, Len(rows) - 1)))

\* Faulty variant: exclusive bounds.
filter_by_date_Exclusive(df, f, t) ==
    LET df1 == IF ~Truthy(f) THEN df ELSE SelectSeq(df, LAMBDA r : r.date > f.day)
    IN IF ~Truthy(t) THEN df1 ELSE SelectSeq(df1, LAMBDA r : r.date < t.day)

\* Faulty variant: the rows kept are returned in date order.
filter_by_date_Sorted(df, f, t) ==
    SortByDate(SelectSeq(df, LAMBDA r : (~Truthy(f) \/ r.date >= f.day) /\ (~Truthy(t) \/ r.date <= t.day)))

\* Faulty variant: to_date is not applied to the rows.
filter_by_date_FromOnly(df, f, t) ==
    IF ~Truthy(f) THEN df ELSE SelectSeq(df, LAMBDA r : r.date >= f.day)

\* Faulty variant: the bounds are not applied to the rows.
filter_by_date_Off(df, f, t) == df

\* Faulty variant: the date column is read before the bounds are looked at.
filter_by_date_error_Eager(cols, f, t) ==
    IF "date" \notin ToSet(cols) THEN "KeyError"
    ELSE IF Truthy(f) /\ f.kind # "date" /\ ParseError(f) # "none" THEN ParseError(f)
    ELSE IF Truthy(t) /\ t.kind # "date" /\ ParseError(t) # "none" THEN ParseError(t)
    ELSE "none"

\* The exception filter_by_date ends in on a frame with the columns cols, "none"
\* when it returns: per bound, from_date first, a falsy bound is skipped, a
\* bound that is not a datetime is parsed, and then df['date'] is read.
filter_by_date_error(cols, f, t) ==
    LET stage(b) == IF ~Truthy(b) THEN "none"
                    ELSE IF b.kind # "date" /\ ParseError(b) # "none" THEN ParseError(b)
                    ELSE IF "date" \notin ToSet(cols) THEN "KeyError"
                    ELSE "none"
    IN IF stage(f) # "none" THEN stage(f) ELSE stage(t)

\* filter_by_date when it returns: a falsy bound imposes no restriction, the
\* rows kept stay in the order they had.
filter_by_date(df, f, t) ==
    LET df1 == IF ~Truthy(f) THEN df ELSE SelectSeq(df, LAMBDA r : r.date >= f.day)
    IN IF ~Truthy(t) THEN df1 ELSE SelectSeq(df1, LAMBDA r : r.date <= t.day)

\* df['date'].min() / .max(); NaT on a frame without rows.
NaT == [kind |-> "NaT", day |-> 0]
MinDate(df) == IF df = <<>> THEN NaT ELSE DateBound(CHOOSE d \in DateSet(df) : \A e \in DateSet(df) : d <= e)
MaxDate(df) == IF df = <<>> THEN NaT ELSE DateBound(CHOOSE d \in DateSet(df) : \A e \in DateSet(df) : d >= e)

\* Faulty variant: an omitted bound on a frame without rows falls back to day 0.
parse_from_to_date_Default(df, f, t) ==
    << IF f.kind = "none" THEN (IF df = <<>> THEN DateBound(0) ELSE MinDate(df)) ELSE DateBound(f.day),
       IF t.kind = "none" THEN (IF df = <<>> THEN DateBound(0) ELSE MaxDate(df)) ELSE DateBound(t.day) >>

\* Faulty variant: a given bound is clipped to the dates of the frame.
parse_from_to_date_Clipped(df, f, t) ==
    LET clip(d) == IF df = <<>> THEN d
                   ELSE IF d < MinDate(df).day THEN MinDate(df).day
                   ELSE IF d > MaxDate(df).day THEN MaxDate(df).day
                   ELSE d
    IN << IF f.kind = "none" THEN MinDate(df) ELSE DateBound(clip(f.day)),
          IF t.kind = "none" THEN MaxDate(df) ELSE DateBound(clip(t.day)) >>

\* Faulty variant: the date column is read whatever the bounds are.
parse_from_to_date_error_Eager(cols, f, t) ==
    LET stage(b) == IF b.kind \in {"none", "text", "date"} THEN "none" ELSE ParseError(b)
    IN IF "date" \notin ToSet(cols) THEN "KeyError"
       ELSE IF stage(f) # "none" THEN stage(f) ELSE stage(t)

\* The exception parse_from_to_date ends in on a frame with the columns cols,
\* "none" when it returns: per bound, from_date first, None reads df['date'],
\* a str is parsed, a datetime is kept and any other value is a TypeError.
parse_from_to_date_error(cols, f, t) ==
    LET stage(b) == IF b.kind = "none" THEN (IF "date" \notin ToSet(cols) THEN "KeyError" ELSE "none")
                    ELSE IF b.kind \in {"text", "badtext", "empty"} THEN ParseError(b)
                    ELSE IF b.kind = "date" THEN "none"
                    ELSE "TypeError"
    IN IF stage(f) # "none" THEN stage(f) ELSE stage(t)

\* parse_from_to_date when it returns: an omitted bound is derived from the
\* frame, a text is parsed to its date and a datetime is kept.
parse_from_to_date(df, f, t) ==
    << IF f.kind = "none" THEN MinDate(df) ELSE DateBound(f.day),
       IF t.kind = "none" THEN MaxDate(df) ELSE DateBound(t.day) >>

\* Faulty variant: a list is returned in the column order of the frame.
validate_candidates_ColumnOrder(cols, sel) ==
    LET list == IF sel = All THEN [i \in 1..Len(SelectSeq(cols, LAMBDA c : c \notin ToSet(BASE_COLS))) |->
                                      Name(SelectSeq(cols, LAMBDA c : c \notin ToSet(BASE_COLS))[i])]
                ELSE IF sel.kind = "str" THEN <<Name(sel.v)>>
                ELSE sel.items
        bad == {i \in 1..Len(list) : ~list[i].str \/ list[i].v \notin ToSet(cols)}
        inOrder == SelectSeq(cols, LAMBDA c : Name(c) \in ToSet(list))
    IN IF bad = {}
       THEN [err |-> "none", name |-> "", list |-> [i \in 1..Len(inOrder) |-> Name(inOrder[i])]]
       ELSE [err |-> "ValueError",
             name |-> list[CHOOSE i \in bad : \A j \in bad : i <= j].v,
             list |-> <<>>]

\* validate_candidates: 'all' stands for the columns outside BASE_COLS in
\* column order, a string for the list holding it; the first item that is not
\* a string or not a column label is named in the ValueError.
validate_candidates(cols, sel) ==
    LET series == SelectSeq(cols, LAMBDA c : c \notin ToSet(BASE_COLS))
        list == IF sel = All THEN [i \in 1..Len(series) |-> Name(series[i])]
                ELSE IF sel.kind = "str" THEN <<Name(sel.v)>>
                ELSE sel.items
        bad == {i \in 1..Len(list) : ~list[i].str \/ list[i].v \notin ToSet(cols)}
    IN IF bad = {}
       THEN [err |-> "none", name |-> "", list |-> list]
       ELSE [err |-> "ValueError",
             name |-> list[CHOOSE i \in bad : \A j \in bad : i <= j].v,
             list |-> <<>>]

\* [from_date + timedelta(days=x) for x in range(0, (to_date-from_date).days+1, increment_days)]
RECURSIVE RangeFrom(_, _, _)
RangeFrom(x, stop, step) == IF x >= stop THEN <<>> ELSE <<x>> \o RangeFrom(x + step, stop, step)

\* Faulty variant: range stops at (to_date-from_date).days, dropping the end point.
GridDates_NoEndpoint(f, t, step) ==
    LET xs == RangeFrom(0, t - f, step)
    IN [i \in 1..Len(xs) |-> f + xs[i]]

GridDates(f, t, step) ==
    LET xs == RangeFrom(0, (t - f) + 1, step)
    IN [i \in 1..Len(xs) |-> f + xs[i]]

\* polls_df.groupby('date').agg(agg_type).reset_index(): one row per distinct
\* date, in ascending date order.
GroupByDate(df, agg) ==
    LET ds == SetToSortedSeq(DateSet(df))
    IN [i \in 1..Len(ds) |->
           [date |-> ds[i], vals |-> AggCols(SelectSeq(df, LAMBDA r : r.date = ds[i]), agg)]]

\* trends_df[trends_df['date']==date]
RowsOn(trends, d) == SelectSeq(trends, LAMBDA r : r.date = d)

\* Faulty variant: the window is open at its lower end.
SubsetDF_OpenLower(df, d, lead) == SelectSeq(df, LAMBDA r : r.date <= d /\ r.date > d - lead)

\* Faulty variant: the window has no upper end.
SubsetDF_NoUpper(df, d, lead) == SelectSeq(df, LAMBDA r : r.date >= d - lead)

\* polls_df[(polls_df['date'] <= date) & (polls_df['date'] >= date - timedelta(days=lead_time))]
SubsetDF(df, d, lead) == SelectSeq(df, LAMBDA r : r.date <= d /\ r.date >= d - lead)

\* pd.DataFrame({'date': date, **{candidate: np.nan ...}}, index=[0])
NaNRow(d) == [date |-> d, vals |-> AllNaN]

\* subset_df.mean().to_frame().T with aggregation_df['date'] = date
AggRow(sub, d, agg) == [date |-> d, vals |-> AggCols(sub, agg)]

\* Faulty variant: an empty window is never widened.
LeadTimeEntry_NoExpand(dfr, d, lead, override, agg, throw) ==
    LET sub == SubsetDF(dfr, d, lead)
    IN IF Len(sub) = 0
       THEN IF throw THEN [kind |-> "raise", row |-> NaNRow(d)]
            ELSE [kind |-> "nan", row |-> NaNRow(d)]
       ELSE [kind |-> "row", row |-> AggRow(sub, d, agg)]

\* Faulty variant: throw_error is honoured only for a frame without rows.
LeadTimeEntry_RaiseOnlyEmpty(dfr, d, lead, override, agg, throw) ==
    LET sub == SubsetDF(dfr, d, lead)
    IN IF Len(dfr) = 0 \/ (Len(sub) = 0 /\ ~override)
       THEN IF throw /\ Len(dfr) = 0 THEN [kind |-> "raise", row |-> NaNRow(d)]
            ELSE [kind |-> "nan", row |-> NaNRow(d)]
       ELSE IF Len(sub) = 0 THEN [kind |-> "expand", row |-> NaNRow(d)]
       ELSE [kind |-> "row", row |-> AggRow(sub, d, agg)]

\* Faulty variant: an empty window is widened whatever lead_override is.
LeadTimeEntry_IgnoreOverride(dfr, d, lead, override, agg, throw) ==
    LET sub == SubsetDF(dfr, d, lead)
    IN IF Len(dfr) = 0
       THEN IF throw THEN [kind |-> "raise", row |-> NaNRow(d)]
            ELSE [kind |-> "nan", row |-> NaNRow(d)]
       ELSE IF Len(sub) = 0 THEN [kind |-> "expand", row |-> NaNRow(d)]
       ELSE [kind |-> "row", row |-> AggRow(sub, d, agg)]

\* ------------------------------------------------- aggregate_with_lead_time
\* The part of aggregate_with_lead_time outside its while loop: the first
\* window selection, the no-data return (or raise), and the aggregation of a
\* non-empty selection.  "nan" is the no-data return, "row" the aggregate,
\* "expand" means the while loop is entered.
LeadTimeEntry(dfr, d, lead, override, agg, throw) ==
    LET sub == SubsetDF(dfr, d, lead)
    IN IF Len(dfr) = 0 \/ (Len(sub) = 0 /\ ~override)
       THEN IF throw THEN [kind |-> "raise", row |-> NaNRow(d)]
            ELSE [kind |-> "nan", row |-> NaNRow(d)]
       ELSE IF Len(sub) = 0 THEN [kind |-> "expand", row |-> NaNRow(d)]
       ELSE [kind |-> "row", row |-> AggRow(sub, d, agg)]

\* Faulty variant: the window is widened by two days a pass.
GrowLead_ByTwo(d, lead) == IF d - lead < 0 THEN lead ELSE lead + 2

\* One pass of the while loop body: lead_time += 1.  Days are never below 0,
\* so once the window's lower edge d - lead is below day 0 every row dated on
\* or before d is already inside the window: a wider window selects the same
\* rows and the loop condition cannot change any more.  From there on the
\* counter is held, which keeps the model finite; the code goes on counting.
GrowLead(d, lead) == IF d - lead < 0 THEN lead ELSE lead + 1

\* ------------------------------------------------------------------ state
VARIABLES
    entry,          \* the function called
    polls_df,       \* the caller's data frame: its rows
    columns,        \* the caller's data frame: its column labels
    candidates,     \* argument candidates
    from_arg,       \* argument from_date
    to_arg,         \* argument to_date
    agg_type,       \* "mean" or "median"
    increment_days, \* grid step
    lead_time,      \* argument lead_time (window width in days)
    lead_override,  \* argument lead_override (window expansion)
    interpolation,  \* "if_missing", "always" or "never"
    throw_error,    \* argument throw_error of aggregate_with_lead_time
    pc,             \* "start", "loop", "expand", "done" or "error"
    err,            \* the exception raised, "none" if none
    err_arg,        \* what the exception names, "" if nothing
    selected,       \* the list validate_candidates returned
    df,             \* local polls_df of aggregate_polls after filter_by_date
    from_date,      \* resolved from_date
    to_date,        \* resolved to_date
    dates,          \* the grid
    idx,            \* position of the for loop in dates
    trends_df,      \* the exact-match table
    out_df,         \* the output frame being built, then returned
    use_lead_time,  \* the per-date flag of aggregate_polls
    calls,          \* the calls made to aggregate_with_lead_time so far
    a_date,         \* aggregate_with_lead_time: its date argument
    a_lead,         \* aggregate_with_lead_time: its local lead_time
    result,         \* aggregate_with_lead_time: the returned one-row frame
    first_out       \* the outcome of an earlier call with the same arguments

vars == <<entry, polls_df, columns, candidates, from_arg, to_arg, agg_type, increment_days,
          lead_time, lead_override, interpolation, throw_error, pc, err, err_arg, selected,
          df, from_date, to_date, dates, idx, trends_df, out_df, use_lead_time, calls,
          a_date, a_lead, result, first_out>>

\* The arguments other than the frame's rows; together with polls_df, what the
\* caller holds.
args == <<entry, columns, candidates, from_arg, to_arg, agg_type, increment_days, lead_time,
          lead_override, interpolation, throw_error>>
caller == <<args, polls_df, first_out>>

AggTypes == {"mean", "median"}
Policies == {"if_missing", "always", "never"}

Locals0 ==
    /\ pc = "start"
    /\ err = "none"
    /\ err_arg = ""
    /\ selected = <<>>
    /\ first_out = <<>>
    /\ from_date = NoneBound
    /\ to_date = NoneBound
    /\ dates = <<>>
    /\ idx = 0
    /\ trends_df = <<>>
    /\ out_df = <<>>
    /\ use_lead_time = FALSE
    /\ calls = {}
    /\ a_lead = 0
    /\ result = <<>>

\* A call of aggregate_polls(polls_df, 'all', agg_type, increment_days,
\* lead_time, lead_override, interpolation, from_date, to_date).
Init ==
    /\ entry = "aggregate_polls"
    /\ polls_df \in Tables
    /\ columns = PollColumns
    /\ candidates = All
    /\ from_arg \in Bounds
    /\ to_arg \in Bounds
    /\ agg_type \in AggTypes
    /\ increment_days \in {1, MaxStep}
    /\ lead_time \in {0, MaxLead}
    /\ lead_override \in BOOLEAN
    /\ interpolation \in Policies
    /\ throw_error = FALSE
    /\ df = <<>>
    /\ a_date = 0
    /\ Locals0

\* ---------------------------------------------------------- aggregate_polls
\* out_df is complete after the last grid date: sort by date and return.
Continue(out) ==
    IF idx >= Len(dates)
    THEN /\ out_df' = SortByDate(out)
         /\ pc' = "done"
         /\ idx' = idx
    ELSE /\ out_df' = out
         /\ pc' = "loop"
         /\ idx' = idx + 1

RaiseArg(e, a) ==
    /\ pc' = "error"
    /\ err' = e
    /\ err_arg' = a

Raise(e) == RaiseArg(e, "")

\* `polls_df = ...` inside a function binds the local name to a new frame; the
\* frame the caller passed keeps its rows.
Rebind_InPlace(passed, local) == local
Rebind(passed, local) == passed

\* Faulty variant: the candidates are validated before the two enumerations.
ArgumentError_CandidatesFirst(policy, agg, v) ==
    IF v.err # "none" THEN <<v.err, v.name>>
    ELSE IF policy \notin Policies THEN <<"ValueError", "interpolation">>
    ELSE IF agg \notin AggTypes THEN <<"ValueError", "agg_type">>
    ELSE <<"none", "">>

\* The first three checks of aggregate_polls, in their order: interpolation,
\* agg_type, then the result v of validate_candidates.
ArgumentError(policy, agg, v) ==
    IF policy \notin Policies THEN <<"ValueError", "interpolation">>
    ELSE IF agg \notin AggTypes THEN <<"ValueError", "agg_type">>
    ELSE IF v.err # "none" THEN <<v.err, v.name>>
    ELSE <<"none", "">>

\* aggregate_polls leaves by an exception raised before the grid is built.
PrepareFail(e, a, sel) ==
    /\ RaiseArg(e, a)
    /\ selected' = sel
    /\ UNCHANGED <<polls_df, df, from_date, to_date, dates, idx, trends_df, out_df>>

Names(list) == [i \in 1..Len(list) |-> list[i].v]

\* aggregate_polls up to its for loop: filter, bounds, grid, exact-match table;
\* under 'never' the exact-match table is sorted and returned.
Prepare ==
    /\ pc = "start"
    /\ entry = "aggregate_polls"
    /\ \E v \in {validate_candidates(columns, candidates)},
          missing \in {SelectSeq(BASE_COLS, LAMBDA c : c \notin ToSet(columns))},
          fe \in {filter_by_date_error(columns, from_arg, to_arg)},
          pe \in {parse_from_to_date_error(columns, from_arg, to_arg)} :
          IF ArgumentError(interpolation, agg_type, v)[1] # "none"
          THEN PrepareFail(ArgumentError(interpolation, agg_type, v)[1],
                           ArgumentError(interpolation, agg_type, v)[2], <<>>)
          ELSE IF missing # <<>>
          THEN \* polls_df[BASE_COLS + candidates]
               PrepareFail("KeyError", missing[1], Names(v.list))
          ELSE IF fe # "none"
          THEN PrepareFail(fe, "", Names(v.list))
          ELSE /\ selected' = Names(v.list)
               /\ df' = filter_by_date(polls_df, from_arg, to_arg)
               /\ polls_df' = Rebind(polls_df, df')
               /\ IF pe # "none"
                  THEN /\ RaiseArg(pe, "")
                       /\ UNCHANGED <<from_date, to_date, dates, idx, trends_df, out_df>>
                  ELSE /\ from_date' = parse_from_to_date(df', from_arg, to_arg)[1]
                       /\ to_date' = parse_from_to_date(df', from_arg, to_arg)[2]
                       /\ IF from_date'.kind = "NaT" \/ to_date'.kind = "NaT"
                          THEN \* (to_date-from_date).days of a missing date
                               /\ Raise("DateRangeError")
                               /\ UNCHANGED <<dates, idx, trends_df, out_df>>
                          ELSE /\ dates' = GridDates(from_date'.day, to_date'.day, increment_days)
                               /\ trends_df' = GroupByDate(df', agg_type)
                               /\ IF interpolation = "never"
                                  THEN /\ out_df' = SortByDate(trends_df')
                                       /\ pc' = "done"
                                       /\ UNCHANGED <<idx, err, err_arg>>
                                  ELSE IF dates' = <<>>
                                  THEN \* pd.DataFrame().sort_values(by='date')
                                       /\ Raise("KeyError")
                                       /\ UNCHANGED <<idx, out_df>>
                                  ELSE /\ pc' = "loop"
                                       /\ idx' = 1
                                       /\ UNCHANGED <<out_df, err, err_arg>>
    /\ UNCHANGED <<args, first_out, use_lead_time, calls, a_date, a_lead, result>>

\* date in trends_df['date'].values
ExactMatch(trends, date) == date \in DateSet(trends)

\* Faulty variant: the flag is set on every date.
UseLeadTime_Always(hit, policy, old) == TRUE

\* Faulty variant: a date with an exact match keeps the flag of the date
\* before it under if_missing.
UseLeadTime_Sticky(hit, policy, old) ==
    IF hit
    THEN IF policy = "always" THEN TRUE ELSE old
    ELSE TRUE

\* The value of use_lead_time after the if / elif chain of the for loop.  The
\* elif tests `date not in trends_df['date']`, a lookup among the index labels
\* 0..n-1 of the column, which holds no date: the branch is taken whenever the
\* first test fails.
UseLeadTime(hit, policy, old) ==
    IF hit
    THEN IF policy = "if_missing" THEN FALSE
         ELSE IF policy = "always" THEN TRUE
         ELSE old
    ELSE TRUE

\* One pass of the for loop over dates, up to the return of
\* aggregate_with_lead_time or its entry into the while loop.
ProcessDate ==
    /\ pc = "loop"
    /\ LET date == dates[idx]
           hit == ExactMatch(trends_df, date)
           use == UseLeadTime(hit, interpolation, use_lead_time)
           out1 == IF hit /\ interpolation = "if_missing"
                   THEN out_df \o RowsOn(trends_df, date)
                   ELSE out_df
       IN /\ use_lead_time' = use
          /\ IF ~use
             THEN /\ Continue(out1)
                  /\ UNCHANGED <<calls, a_date, a_lead>>
             ELSE LET r == LeadTimeEntry(df, date, lead_time, lead_override, agg_type, FALSE)
                  IN /\ calls' = calls \cup {[date |-> date, lead_time |-> lead_time, lead_override |-> lead_override]}
                     /\ a_date' = date
                     /\ a_lead' = lead_time
                     /\ IF r.kind = "expand"
                        THEN /\ pc' = "expand"
                             /\ out_df' = out1
                             /\ UNCHANGED idx
                        ELSE Continue(Append(out1, r.row))
    /\ UNCHANGED <<caller, err, err_arg, selected, df, from_date, to_date, dates, trends_df, result>>

\* One pass of the while loop of aggregate_with_lead_time; when the selection
\* is no longer empty the aggregate is returned to the caller.
ExpandStep ==
    /\ pc = "expand"
    /\ LET lead == GrowLead(a_date, a_lead)
           sub == SubsetDF(df, a_date, lead)
       IN /\ a_lead' = lead
          /\ IF Len(sub) = 0
             THEN UNCHANGED <<pc, out_df, idx, result>>
             ELSE IF entry = "aggregate_polls"
             THEN /\ Continue(Append(out_df, AggRow(sub, a_date, agg_type)))
                  /\ UNCHANGED result
             ELSE /\ result' = <<AggRow(sub, a_date, agg_type)>>
                  /\ pc' = "done"
                  /\ UNCHANGED <<out_df, idx>>
    /\ UNCHANGED <<caller, err, err_arg, selected, df, from_date, to_date, dates, trends_df,
                    use_lead_time, calls, a_date>>

Next == Prepare \/ ProcessDate \/ ExpandStep

Spec == Init /\ [][Next]_vars

\* ------------------------------------- aggregate_with_lead_time called alone
\* A call of aggregate_with_lead_time(polls_df, date, lead_time, lead_override,
\* agg_type, 'all', throw_error) on a frame of date and series columns.
LeadInit ==
    /\ entry = "aggregate_with_lead_time"
    /\ polls_df \in LeadTables
    /\ columns = LeadColumns
    /\ candidates = All
    /\ from_arg = NoneBound
    /\ to_arg = NoneBound
    /\ agg_type \in AggTypes
    /\ increment_days = 1
    /\ lead_time \in 0..MaxLead
    /\ lead_override \in BOOLEAN
    /\ interpolation = "if_missing"
    /\ throw_error \in BOOLEAN
    /\ df = polls_df
    /\ a_date \in Days
    /\ Locals0

\* The candidates of aggregate_with_lead_time: for 'all' the columns of the
\* frame outside BASE_COLS, for a list its names.  No validation is made.
CandidateNames(cols, sel) ==
    IF sel = All THEN {c \in ToSet(cols) : c \notin ToSet(BASE_COLS)}
    ELSE ToSet(Names(sel.items))

\* pd.DataFrame({'date': date, **{candidate: np.nan for candidate in
\* candidates}}): the no-data row has the date and one cell per candidate.
NaNFrame(d, names) == [date |-> d, vals |-> [s \in names |-> NaN]]

CallLead ==
    /\ pc = "start"
    /\ entry = "aggregate_with_lead_time"
    /\ LET r == LeadTimeEntry(df, a_date, lead_time, lead_override, agg_type, throw_error)
       IN /\ a_lead' = lead_time
          /\ calls' = calls \cup {[date |-> a_date, lead_time |-> lead_time, lead_override |-> lead_override]}
          /\ IF r.kind = "raise"
             THEN /\ Raise("ValueError")
                  /\ UNCHANGED result
             ELSE IF r.kind = "expand"
             THEN /\ pc' = "expand"
                  /\ UNCHANGED <<err, err_arg, result>>
             ELSE /\ result' = <<IF r.kind = "nan"
                                  THEN NaNFrame(a_date, CandidateNames(columns, candidates))
                                  ELSE r.row>>
                  /\ pc' = "done"
                  /\ UNCHANGED <<err, err_arg>>
    /\ UNCHANGED <<caller, selected, df, from_date, to_date, dates, idx, trends_df, out_df,
                    use_lead_time, a_date>>

LeadNext == CallLead \/ ExpandStep

LeadSpec == LeadInit /\ [][LeadNext]_vars

\* A call of aggregate_with_lead_time with candidates 'all' or a list of
\* series columns of the frame.
SeriesLists == {<<Name("A")>>, <<Name("B")>>, <<Name("A"), Name("B")>>, <<Name("B"), Name("A")>>}
FieldsInit ==
    /\ entry = "aggregate_with_lead_time"
    /\ polls_df \in Tables
    /\ columns = LeadColumns
    /\ candidates \in {All} \cup {ListSel(l) : l \in SeriesLists}
    /\ from_arg = NoneBound
    /\ to_arg = NoneBound
    /\ agg_type \in AggTypes
    /\ increment_days = 1
    /\ lead_time \in 0..MaxLead
    /\ lead_override \in BOOLEAN
    /\ interpolation = "if_missing"
    /\ throw_error = FALSE
    /\ df = polls_df
    /\ a_date \in Days
    /\ Locals0

FieldsSpec == FieldsInit /\ [][LeadNext]_vars

\* The interpreter keeps running the while loop while its condition holds.
FairLeadSpec == LeadSpec /\ WF_vars(ExpandStep)

\* ----------------------------------------------- the worked example of the spec
\* Rows (2023-01-01, A=40, B=30), (2023-01-02, A=50, B=40), (2023-01-03, A=60,
\* B=50), with 2023-01-01 as day 1.
ExampleRow(d, a, b) == [date |-> d, vals |-> [s \in Series |-> IF s = "A" THEN Cell(a) ELSE Cell(b)]]
ExamplePolls == <<ExampleRow(1, 40, 30), ExampleRow(2, 50, 40), ExampleRow(3, 60, 50)>>
ExampleBounds == {NoneBound} \cup {DateBound(d) : d \in 0..6}

ExampleInit ==
    /\ entry = "aggregate_polls"
    /\ polls_df = ExamplePolls
    /\ columns = PollColumns
    /\ candidates = All
    /\ from_arg \in ExampleBounds
    /\ to_arg \in ExampleBounds
    /\ agg_type \in AggTypes
    /\ increment_days \in 1..MaxStep
    /\ lead_time \in {0, 7}
    /\ lead_override \in BOOLEAN
    /\ interpolation \in Policies
    /\ throw_error = FALSE
    /\ df = <<>>
    /\ a_date = 0
    /\ Locals0

ExampleSpec == ExampleInit /\ [][Next]_vars

\* The example calls under weak fairness: a pass of the for loop or of the
\* while loop that can be made is made.
FairExampleSpec == ExampleSpec /\ WF_vars(Next)

\* ------------------------------------------------ aggregate_polls called twice
\* After a call has returned or raised, the caller calls aggregate_polls again
\* with the same arguments and the frame it holds; the outcome of the first
\* call is kept aside.
Rerun ==
    /\ entry = "aggregate_polls"
    /\ pc \in {"done", "error"}
    /\ first_out = <<>>
    /\ first_out' = <<[pc |-> pc, err |-> err, out |-> out_df]>>
    /\ pc' = "start"
    /\ err' = "none"
    /\ err_arg' = ""
    /\ selected' = <<>>
    /\ df' = <<>>
    /\ from_date' = NoneBound
    /\ to_date' = NoneBound
    /\ dates' = <<>>
    /\ idx' = 0
    /\ trends_df' = <<>>
    /\ out_df' = <<>>
    /\ use_lead_time' = FALSE
    /\ calls' = {}
    /\ a_date' = 0
    /\ a_lead' = 0
    /\ result' = <<>>
    /\ UNCHANGED <<args, polls_df>>

TwiceNext == Prepare \/ ProcessDate \/ ExpandStep \/ Rerun

TwiceSpec == ExampleInit /\ [][TwiceNext]_vars

\* --------------------------------------------- calls with arguments of any kind
\* The arguments a call leaves at their defaults (the window is 0 days here).
Defaults ==
    /\ agg_type = "mean"
    /\ increment_days = 1
    /\ lead_time = 0
    /\ lead_override = TRUE
    /\ interpolation = "if_missing"
    /\ throw_error = FALSE
    /\ df = <<>>
    /\ a_date = 0

\* A call of validate_candidates(polls_df, candidates).
ValidateInit ==
    /\ entry = "validate_candidates"
    /\ polls_df = <<>>
    /\ columns \in {PollColumns, MixedColumns, NoDateColumns}
    /\ candidates \in Selectors
    /\ from_arg = NoneBound
    /\ to_arg = NoneBound
    /\ Defaults
    /\ Locals0

CallValidate ==
    /\ pc = "start"
    /\ entry = "validate_candidates"
    /\ \E v \in {validate_candidates(columns, candidates)} :
          IF v.err # "none"
          THEN /\ RaiseArg(v.err, v.name)
               /\ UNCHANGED selected
          ELSE /\ selected' = Names(v.list)
               /\ pc' = "done"
               /\ UNCHANGED <<err, err_arg>>
    /\ UNCHANGED <<caller, df, from_date, to_date, dates, idx, trends_df, out_df, use_lead_time,
                    calls, a_date, a_lead, result>>

\* A frame with a day without rows between two days with rows.
GapPolls == <<[date |-> 0, vals |-> [s \in Series |-> Cell(40)]],
              [date |-> MaxDay, vals |-> [s \in Series |-> IF s = "A" THEN Cell(70) ELSE NaN]]>>

\* The selectors that keep both series columns, and selectors with an item
\* that validate_candidates refuses.
ArgSelectors == {All, ListSel(<<Name("A"), Name("B")>>), ListSel(<<Name("B"), Name("A")>>),
                 StrSel("C"), ListSel(<<Name("A"), Name("C")>>), ListSel(<<NonStr, Name("C")>>)}

\* A call of aggregate_polls with arguments of every kind, valid or not.
ArgInit ==
    /\ entry = "aggregate_polls"
    /\ polls_df \in {<<>>, GapPolls}
    /\ columns \in {PollColumns, NoDateColumns}
    /\ candidates \in ArgSelectors
    /\ from_arg \in AnyBounds
    /\ to_arg \in AnyBounds
    /\ agg_type \in AggTypes \cup {"mode"}
    /\ increment_days = 1
    /\ lead_time = 0
    /\ lead_override = TRUE
    /\ interpolation \in Policies \cup {"linear"}
    /\ throw_error = FALSE
    /\ df = <<>>
    /\ a_date = 0
    /\ Locals0

ArgNext == Prepare \/ ProcessDate \/ ExpandStep \/ CallValidate

ArgSpec == (ValidateInit \/ ArgInit) /\ [][ArgNext]_vars

\* --------------------------------------- the date helpers called on their own
\* Frames of at most MaxRows rows in any row order; on a frame without a date
\* column the date of a row is not a cell of the frame and is left at 0.
AnyOrderTables == UNION {[1..n -> RowSet] : n \in 0..MaxRows}
FramesOf(cols) ==
    IF "date" \in ToSet(cols) THEN AnyOrderTables
    ELSE {t \in AnyOrderTables : \A i \in 1..Len(t) : t[i].date = 0}

\* A call of parse_from_to_date(df, from_date, to_date).
ParseInit ==
    /\ entry = "parse_from_to_date"
    /\ columns \in {PollColumns, NoDateColumns}
    /\ polls_df \in FramesOf(columns)
    /\ candidates = All
    /\ from_arg \in AnyBounds
    /\ to_arg \in AnyBounds
    /\ Defaults
    /\ Locals0

CallParse ==
    /\ pc = "start"
    /\ entry = "parse_from_to_date"
    /\ \E e \in {parse_from_to_date_error(columns, from_arg, to_arg)} :
          IF e # "none"
          THEN /\ RaiseArg(e, IF e = "KeyError" THEN "date" ELSE "")
               /\ UNCHANGED <<from_date, to_date>>
          ELSE /\ from_date' = parse_from_to_date(polls_df, from_arg, to_arg)[1]
               /\ to_date' = parse_from_to_date(polls_df, from_arg, to_arg)[2]
               /\ pc' = "done"
               /\ UNCHANGED <<err, err_arg>>
    /\ UNCHANGED <<caller, selected, df, dates, idx, trends_df, out_df, use_lead_time, calls,
                    a_date, a_lead, result>>

ParseSpec == ParseInit /\ [][CallParse]_vars

\* A call of filter_by_date(df, from_date, to_date).
FilterInit ==
    /\ entry = "filter_by_date"
    /\ columns \in {PollColumns, NoDateColumns}
    /\ polls_df \in FramesOf(columns)
    /\ candidates = All
    /\ from_arg \in AnyBounds
    /\ to_arg \in AnyBounds
    /\ Defaults
    /\ Locals0

CallFilter ==
    /\ pc = "start"
    /\ entry = "filter_by_date"
    /\ \E e \in {filter_by_date_error(columns, from_arg, to_arg)} :
          IF e # "none"
          THEN /\ RaiseArg(e, IF e = "KeyError" THEN "date" ELSE "")
               /\ UNCHANGED df
          ELSE /\ df' = filter_by_date(polls_df, from_arg, to_arg)
               /\ pc' = "done"
               /\ UNCHANGED <<err, err_arg>>
    /\ UNCHANGED <<caller, selected, from_date, to_date, dates, idx, trends_df, out_df,
                    use_lead_time, calls, a_date, a_lead, result>>

FilterSpec == FilterInit /\ [][CallFilter]_vars

\* ------------------------------------------------------------- get_polls
\* The series cells of the table read_html returns: a text (a sequence of
\* characters), or a value read_html already parsed (a number, or NaN for an
\* empty cell).
MaxCell == 4
Chars == {"1", "0", ".", "%"}
IsDigit(c) == c \in {"0", "1"}
DigitVal(c) == IF c = "1" THEN 1 ELSE 0
Text(chars) == [str |-> TRUE, chars |-> chars, val |-> NaN]
Parsed(v) == [str |-> FALSE, chars |-> <<>>, val |-> v]
RawCells ==
    {Text(c) : c \in UNION {[1..n -> Chars] : n \in 0..MaxCell}}
        \cup {Parsed(NaN), Parsed(Cell(45))}
RawColumns == <<"date", "pollster", "n", "A">>
RawFrames == {<<[date |-> d, vals |-> [s \in {"A"} |-> c]]>> : d \in Days, c \in RawCells}

\* utils.remove_non_numeric: a text keeps its digits and dots, in order;
\* any other value is returned as it is.
remove_non_numeric(value) ==
    IF value.str
    THEN Text(SelectSeq(value.chars, LAMBDA c : IsDigit(c) \/ c = "."))
    ELSE value

\* polls_df.loc[polls_df[col] == '', col] = np.nan
EmptyToNaN(value) == IF value = Text(<<>>) THEN Parsed(NaN) ELSE value

\* float(text) of a text of digits and dots: the digits and at most one dot,
\* with at least one digit ('5.' and '.5' are numbers, '.' and '1.0.1' are
\* not).
IsFloatText(chars) ==
    /\ \E i \in 1..Len(chars) : IsDigit(chars[i])
    /\ Cardinality({i \in 1..Len(chars) : chars[i] = "."}) <= 1

RECURSIVE IntOf(_)
IntOf(digits) ==
    IF digits = <<>> THEN 0
    ELSE 10 * IntOf(SubSeq(digits, 1, Len(digits) - 1)) + DigitVal(digits[Len(digits)])

RECURSIVE Pow10(_)
Pow10(k) == IF k = 0 THEN 1 ELSE 10 * Pow10(k - 1)

\* The exception astype(float) ends in on a cell, "none" when it converts.
astype_float_error(value) ==
    IF value.str /\ ~IsFloatText(value.chars) THEN "ValueError" ELSE "none"

\* astype(float) of a cell that converts: the decimal the text writes.
astype_float(value) ==
    IF ~value.str THEN value.val
    ELSE LET dot == {i \in 1..Len(value.chars) : value.chars[i] = "."}
             after == IF dot = {} THEN 0
                      ELSE Len(value.chars) - (CHOOSE i \in dot : TRUE)
         IN <<IntOf(SelectSeq(value.chars, IsDigit)), Pow10(after)>>

\* polls_df[col] / 100; NaN stays NaN.
Percent(c) == IF IsNaN(c) THEN NaN ELSE Reduce(c[1], c[2] * 100)

\* A call of get_polls(url, from_date, to_date), from the table read_html
\* returned on: one row, one series column.
GetPollsInit ==
    /\ entry = "get_polls"
    /\ columns = RawColumns
    /\ polls_df \in RawFrames
    /\ candidates = All
    /\ from_arg \in Bounds
    /\ to_arg \in Bounds
    /\ Defaults
    /\ Locals0

\* for col in candidate_cols: strip, '' to NaN, astype(float), / 100; then
\* filter_by_date.
CallGetPolls ==
    /\ pc = "start"
    /\ entry = "get_polls"
    /\ \E stripped \in {[i \in 1..Len(polls_df) |->
                            EmptyToNaN(remove_non_numeric(polls_df[i].vals["A"]))]} :
          IF \E i \in 1..Len(stripped) : astype_float_error(stripped[i]) # "none"
          THEN /\ Raise("ValueError")
               /\ UNCHANGED df
          ELSE /\ df' = filter_by_date(
                          [i \in 1..Len(polls_df) |->
                              [date |-> polls_df[i].date,
                               vals |-> [s \in {"A"} |-> Percent(astype_float(stripped[i]))]]],
                          from_arg, to_arg)
               /\ pc' = "done"
               /\ UNCHANGED <<err, err_arg>>
    /\ UNCHANGED <<caller, selected, from_date, to_date, dates, idx, trends_df, out_df,
                    use_lead_time, calls, a_date, a_lead, result>>

GetPollsSpec == GetPollsInit /\ [][CallGetPolls]_vars

\* ------------------------------------------- the for loop in another order
\* The for loop of aggregate_polls walks `dates` as it is listed.  Shuffle lists
\* the grid in another order before the first pass, so that the passes are
\* made in any order; the sort after the loop is the one of the code.
IsAscending(xs) == \A i \in 1..(Len(xs) - 1) : xs[i] < xs[i + 1]
Reorderings(xs) ==
    {ys \in [1..Len(xs) -> ToSet(xs)] : ToSet(ys) = ToSet(xs) /\ ys # xs}

ShuffleInit ==
    /\ entry = "aggregate_polls"
    /\ polls_df \in Tables
    /\ columns = PollColumns
    /\ candidates = All
    /\ from_arg \in {NoneBound, DateBound(0)}
    /\ to_arg = DateBound(MaxDay)
    /\ agg_type \in AggTypes
    /\ increment_days = 1
    /\ lead_time \in {0, MaxLead}
    /\ lead_override \in BOOLEAN
    /\ interpolation \in {"if_missing", "always"}
    /\ throw_error = FALSE
    /\ df = <<>>
    /\ a_date = 0
    /\ Locals0

Shuffle ==
    /\ pc = "loop"
    /\ idx = 1
    /\ out_df = <<>>
    /\ IsAscending(dates)
    /\ dates' \in Reorderings(dates)
    /\ UNCHANGED <<caller, pc, err, err_arg, selected, df, from_date, to_date, idx,
                    trends_df, out_df, use_lead_time, calls, a_date, a_lead, result>>

ShuffleNext == Prepare \/ Shuffle \/ ProcessDate \/ ExpandStep

ShuffleSpec == ShuffleInit /\ [][ShuffleNext]_vars

\* ------------------------------------------------------------------ claims
\* What the claims speak of, stated on row positions and without the
\* operators of the model above.
WindowIdx(frame, d, w) == {i \in 1..Len(frame) : d - w <= frame[i].date /\ frame[i].date <= d}
OnDateIdx(frame, d) == {i \in 1..Len(frame) : frame[i].date = d}
PresentIdx(frame, I, s) == {i \in I : frame[i].vals[s][2] # 0}

RECURSIVE SumOver(_, _, _)
SumOver(frame, I, s) ==
    IF I = {} THEN 0
    ELSE LET i == CHOOSE j \in I : TRUE
         IN frame[i].vals[s][1] + SumOver(frame, I \ {i}, s)

\* The k-th smallest of the values of series s on the rows P.
KthSmallest(frame, P, s, k) ==
    CHOOSE v \in {frame[i].vals[s][1] : i \in P} :
        /\ Cardinality({i \in P : frame[i].vals[s][1] < v}) < k
        /\ Cardinality({i \in P : frame[i].vals[s][1] <= v}) >= k

\* Cell c is the mean / median of the present values of series s on the rows I.
IsAggOf(c, frame, I, s, agg) ==
    LET P == PresentIdx(frame, I, s)
        n == Cardinality(P)
    IN IF P = {} THEN c = NaN
       ELSE /\ c[2] > 0
            /\ IF agg = "mean"
               THEN c[1] * n = SumOver(frame, P, s) * c[2]
               ELSE 2 * c[1] = (KthSmallest(frame, P, s, (n + 1) \div 2)
                                + KthSmallest(frame, P, s, (n + 2) \div 2)) * c[2]

RowIsAggOf(row, frame, I, d, agg) ==
    /\ row.date = d
    /\ \A s \in Series : IsAggOf(row.vals[s], frame, I, s, agg)

RowIsMissing(row, d) ==
    /\ row.date = d
    /\ \A s \in Series : row.vals[s] = NaN

InArgBounds(d) ==
    /\ from_arg.kind = "none" \/ d >= from_arg.day
    /\ to_arg.kind = "none" \/ d <= to_arg.day

Returned == pc = "done"
PollsReturned == entry = "aggregate_polls" /\ pc = "done"
LeadReturned == entry = "aggregate_with_lead_time" /\ pc = "done"
CallsFor(d) == {c \in calls : c.date = d}

\* C1: under if_missing and always the returned frame has exactly one row per
\* grid date resolved_from + k*increment_days <= resolved_to, in ascending
\* order, so its length is floor((resolved_to - resolved_from)/increment_days) + 1.
C1_GridComplete ==
    (PollsReturned /\ interpolation \in {"if_missing", "always"}) =>
        LET n == ((to_date.day - from_date.day) \div increment_days) + 1
        IN /\ to_date.day >= from_date.day
           /\ Len(out_df) = n
           /\ \A k \in 1..n : out_df[k].date = from_date.day + (k - 1) * increment_days
           /\ from_date.day + (n - 1) * increment_days <= to_date.day
           /\ from_date.day + n * increment_days > to_date.day

C1_Witness ==
    /\ PollsReturned
    /\ interpolation = "if_missing"
    /\ increment_days = 2
    /\ to_date.day - from_date.day = 1
    /\ Len(out_df) = 1
    /\ calls # {}

\* C2 as stated: under if_missing a grid date with an exact match gets the
\* exact-match aggregate whatever the window, and for a grid date without one
\* aggregate_with_lead_time is called with expansion enabled.
C2_ExpansionAlwaysOn ==
    (entry = "aggregate_polls" /\ interpolation = "if_missing") =>
        /\ \A c \in calls : c.lead_override = TRUE /\ OnDateIdx(df, c.date) = {}
        /\ pc = "done" =>
              /\ Len(out_df) = Len(dates)
              /\ \A i \in 1..Len(dates) :
                    IF OnDateIdx(df, dates[i]) # {}
                    THEN RowIsAggOf(out_df[i], df, OnDateIdx(df, dates[i]), dates[i], agg_type)
                    ELSE CallsFor(dates[i]) # {}

\* C2 amended: the call is made with the configured lead_time and
\* lead_override (expansion is on only if the caller left it on).
C2_IfMissing ==
    (entry = "aggregate_polls" /\ interpolation = "if_missing") =>
        /\ \A c \in calls :
              /\ c.lead_override = lead_override
              /\ c.lead_time = lead_time
              /\ OnDateIdx(df, c.date) = {}
        /\ pc = "done" =>
              /\ Len(out_df) = Len(dates)
              /\ \A i \in 1..Len(dates) :
                    IF OnDateIdx(df, dates[i]) # {}
                    THEN RowIsAggOf(out_df[i], df, OnDateIdx(df, dates[i]), dates[i], agg_type)
                    ELSE CallsFor(dates[i]) # {}

C2_Witness ==
    /\ PollsReturned
    /\ interpolation = "if_missing"
    /\ ~lead_override
    /\ lead_time > 0
    /\ \E i, j \in 1..Len(dates) :
          /\ j = i + 1
          /\ OnDateIdx(df, dates[i]) # {}
          /\ OnDateIdx(df, dates[j]) # {}
          /\ out_df[j].vals # out_df[i].vals
    /\ \E i \in 1..Len(dates) : CallsFor(dates[i]) # {}

\* The width of the window aggregate_with_lead_time ends with for date d: the
\* given width, or, when that window is empty, the frame is not and expansion
\* is on, the least greater width whose window is not empty.
GrownWidths(frame, d, w) == {v \in w..(d + 1) : WindowIdx(frame, d, v) # {}}
NeedsGrowth(frame, d, w, override) == frame # <<>> /\ override /\ WindowIdx(frame, d, w) = {}
FinalWidth(frame, d, w) == CHOOSE v \in GrownWidths(frame, d, w) : \A u \in GrownWidths(frame, d, w) : v <= u

\* C3 as stated: under always every grid date d gets the aggregate of the
\* observations dated in [d - lead_time, d].
C3_FixedWindow ==
    (PollsReturned /\ interpolation = "always") =>
        /\ Len(out_df) = Len(dates)
        /\ \A i \in 1..Len(dates) :
              /\ CallsFor(dates[i]) # {}
              /\ RowIsAggOf(out_df[i], df, WindowIdx(df, dates[i], lead_time), dates[i], agg_type)

\* C3 amended: under always every grid date d, with or without an exact match,
\* gets the result of aggregate_with_lead_time: the aggregate over the
\* observations dated in [d - w, d], both ends included, where w is lead_time
\* unless that window is empty and expansion widens it to the first width
\* whose window is not empty.
C3_AlwaysWindow ==
    (PollsReturned /\ interpolation = "always") =>
        /\ Len(out_df) = Len(dates)
        /\ \A i \in 1..Len(dates) :
              LET d == dates[i]
              IN /\ CallsFor(d) # {}
                 /\ IF NeedsGrowth(df, d, lead_time, lead_override)
                    THEN /\ GrownWidths(df, d, lead_time) # {}
                         /\ RowIsAggOf(out_df[i], df, WindowIdx(df, d, FinalWidth(df, d, lead_time)), d, agg_type)
                    ELSE RowIsAggOf(out_df[i], df, WindowIdx(df, d, lead_time), d, agg_type)

C3_Witness ==
    /\ PollsReturned
    /\ interpolation = "always"
    /\ lead_time = 1
    /\ \E i \in 1..Len(dates) :
          /\ OnDateIdx(df, dates[i]) # {}
          /\ OnDateIdx(df, dates[i] - 1) # {}
          /\ ~RowIsAggOf(out_df[i], df, OnDateIdx(df, dates[i]), dates[i], agg_type)
          /\ \E s \in Series : ~IsNaN(out_df[i].vals[s])

\* C4: under never the returned frame is the exact-match table: one row per
\* distinct date of the observations inside the given bounds, aggregated with
\* agg_type, in ascending date order; no row for a date without observations,
\* and aggregate_with_lead_time is never called, so increment_days, lead_time
\* and lead_override play no part.
C4_NeverIsExactTable ==
    (PollsReturned /\ interpolation = "never") =>
        /\ calls = {}
        /\ {out_df[i].date : i \in 1..Len(out_df)}
              = {polls_df[j].date : j \in {k \in 1..Len(polls_df) : InArgBounds(polls_df[k].date)}}
        /\ \A i \in 1..(Len(out_df) - 1) : out_df[i].date < out_df[i + 1].date
        /\ \A i \in 1..Len(out_df) :
              RowIsAggOf(out_df[i], polls_df, OnDateIdx(polls_df, out_df[i].date), out_df[i].date, agg_type)

C4_Witness ==
    /\ PollsReturned
    /\ interpolation = "never"
    /\ Len(out_df) = 1
    /\ Len(dates) = 3
    /\ Len(polls_df) = 2
    /\ lead_override
    /\ out_df[1].date = 1

\* C5: with a frame that is not empty, an empty window and expansion on, the
\* while loop of aggregate_with_lead_time ends, whatever the target date.
\* Refuted when every row is dated after the target date: the selection stays
\* empty at every width and the loop is never left.
C5_ExpansionTerminates == [](pc = "expand" => <>(pc = "done"))

\* The window aggregate_with_lead_time holds when it returns.
LastWindow == WindowIdx(polls_df, a_date, a_lead)
FirstWindow == WindowIdx(polls_df, a_date, lead_time)

\* C6 as stated: with a frame that is not empty and expansion on, the result
\* is non-missing for every series with a present value anywhere in the frame.
C6_FilledFromAnywhere ==
    (LeadReturned /\ polls_df # <<>> /\ lead_override) =>
        \A s \in Series :
            PresentIdx(polls_df, 1..Len(polls_df), s) # {} => ~IsNaN(result[1].vals[s])

\* C6 amended: with a frame that is not empty and expansion on, a returned
\* result comes from a window that is not empty (the first such width from
\* lead_time up) and is non-missing for exactly the series with a present
\* value inside that window.
C6_FilledFromWindow ==
    (LeadReturned /\ polls_df # <<>> /\ lead_override) =>
        /\ Len(result) = 1
        /\ LastWindow # {}
        /\ a_lead >= lead_time
        /\ a_lead > lead_time => WindowIdx(polls_df, a_date, a_lead - 1) = {}
        /\ \A s \in Series :
              PresentIdx(polls_df, LastWindow, s) # {} <=> ~IsNaN(result[1].vals[s])

C6_Witness ==
    /\ LeadReturned
    /\ lead_override
    /\ a_lead > lead_time
    /\ \E s \in Series :
          /\ IsNaN(result[1].vals[s])
          /\ PresentIdx(polls_df, 1..Len(polls_df), s) # {}
    /\ \E s \in Series : ~IsNaN(result[1].vals[s])

\* C7: on a frame that is not empty, aggregate_with_lead_time with lead_time 0
\* and expansion off (throw_error left off) returns the row the per-date
\* groupby aggregate has for the date when an observation is dated on it, and
\* an all-missing row with that date otherwise.
C7_ZeroWindowIsExactMatch ==
    (/\ entry = "aggregate_with_lead_time"
     /\ lead_time = 0
     /\ ~lead_override
     /\ ~throw_error
     /\ polls_df # <<>>
     /\ pc # "start") =>
        /\ pc = "done"
        /\ Len(result) = 1
        /\ IF OnDateIdx(polls_df, a_date) # {}
           THEN \E k \in 1..Len(GroupByDate(polls_df, agg_type)) :
                    result[1] = GroupByDate(polls_df, agg_type)[k] /\ result[1].date = a_date
           ELSE RowIsMissing(result[1], a_date)

C7_Witness ==
    /\ LeadReturned
    /\ lead_time = 0
    /\ ~lead_override
    /\ ~throw_error
    /\ Cardinality(OnDateIdx(polls_df, a_date)) = 2
    /\ Len(polls_df) = 3
    /\ polls_df[1].date < a_date
    /\ \E s \in Series : ~IsNaN(result[1].vals[s]) /\ result[1].vals[s] # polls_df[1].vals[s]

\* C8: when the window is not empty each series is aggregated over its own
\* present values: a series without a present value in the window is missing
\* in the result, and the other series keep their aggregates.
C8_PerSeriesMissing ==
    (LeadReturned /\ LastWindow # {}) =>
        /\ Len(result) = 1
        /\ result[1].date = a_date
        /\ \A s \in Series : IsAggOf(result[1].vals[s], polls_df, LastWindow, s, agg_type)

C8_Witness ==
    /\ LeadReturned
    /\ Cardinality(LastWindow) = 3
    /\ \E s, t \in Series :
          /\ PresentIdx(polls_df, LastWindow, s) = {}
          /\ IsNaN(result[1].vals[s])
          /\ Cardinality(PresentIdx(polls_df, LastWindow, t)) = 2
          /\ ~IsNaN(result[1].vals[t])
          /\ result[1].vals[t][2] = 1

NoData == polls_df = <<>> \/ (FirstWindow = {} /\ ~lead_override)

\* C9 as stated: aggregate_with_lead_time raises exactly when throw_error is
\* set and the frame has no rows; with rows, an empty window and expansion off
\* it returns the all-missing row whatever throw_error is.
C9_RaisesOnlyOnEmptyFrame ==
    (entry = "aggregate_with_lead_time" /\ pc # "start") =>
        /\ pc = "error" <=> (throw_error /\ polls_df = <<>>)
        /\ (polls_df # <<>> /\ FirstWindow = {} /\ ~lead_override) =>
              (pc = "done" /\ Len(result) = 1 /\ RowIsMissing(result[1], a_date))

\* C9 amended: aggregate_with_lead_time raises the no-data ValueError exactly
\* when throw_error is set and either the frame has no rows or the window is
\* empty with expansion off; in those two cases with throw_error off it
\* returns the all-missing row dated with the target date.
C9_RaisesOnNoData ==
    (entry = "aggregate_with_lead_time" /\ pc # "start") =>
        /\ pc = "error" <=> (throw_error /\ NoData)
        /\ pc = "error" => (err = "ValueError" /\ result = <<>>)
        /\ (NoData /\ ~throw_error) =>
              (pc = "done" /\ Len(result) = 1 /\ RowIsMissing(result[1], a_date))

C9_Witness ==
    /\ entry = "aggregate_with_lead_time"
    /\ pc = "error"
    /\ throw_error
    /\ polls_df # <<>>
    /\ \E i \in 1..Len(polls_df) : polls_df[i].date < a_date

\* The second example: from 2023-01-04 to 2023-01-06, lead_time 7, expansion
\* on, if_missing, mean, daily grid.
IsExample ==
    /\ polls_df = ExamplePolls
    /\ from_arg = DateBound(4)
    /\ to_arg = DateBound(6)
    /\ lead_time = 7
    /\ lead_override
    /\ interpolation = "if_missing"
    /\ agg_type = "mean"
    /\ increment_days = 1

ExampleMeans == [s \in Series |-> IF s = "A" THEN Cell(50) ELSE Cell(40)]

\* C10 as stated: in the example every grid date is filled from the window
\* over the three known rows, A = 50 and B = 40.
C10_ExampleFilled ==
    (IsExample /\ PollsReturned) =>
        /\ Len(out_df) = 3
        /\ \A i \in 1..3 : out_df[i] = [date |-> 3 + i, vals |-> ExampleMeans]

\* C10 amended: in the example the rows dated before from_date are filtered
\* out before any window is taken, so the call returns one row per grid date
\* 2023-01-04..06 with every series missing.
C10_ExampleMissing ==
    IsExample =>
        /\ pc \in {"start", "loop", "done"}
        /\ pc # "start" => df = <<>>
        /\ pc = "done" =>
              /\ Len(out_df) = 3
              /\ \A i \in 1..3 : RowIsMissing(out_df[i], 3 + i)

C10_Witness ==
    /\ IsExample
    /\ PollsReturned
    /\ Len(out_df) = 3
    /\ Cardinality(calls) = 3

\* C11: with both bounds given and no observation dated inside them,
\* aggregate_polls under if_missing with expansion on returns one all-missing
\* row per grid date from_date + k*increment_days <= to_date; it neither
\* raises nor enters the while loop.  Refuted when from_date is after
\* to_date: the grid is empty and sorting the empty output raises.
C11_OutOfRangeAllMissing ==
    (/\ entry = "aggregate_polls"
     /\ interpolation = "if_missing"
     /\ lead_override
     /\ from_arg.kind = "date"
     /\ to_arg.kind = "date"
     /\ \A i \in 1..Len(polls_df) : ~InArgBounds(polls_df[i].date)
     /\ pc # "start") =>
        /\ pc \in {"loop", "done"}
        /\ pc = "done" =>
              LET n == IF to_arg.day < from_arg.day THEN 0
                       ELSE ((to_arg.day - from_arg.day) \div increment_days) + 1
              IN /\ Len(out_df) = n
                 /\ \A k \in 1..n : RowIsMissing(out_df[k], from_arg.day + (k - 1) * increment_days)

\* C12: with lead_override off, under if_missing and always, the while loop is
\* never entered and a grid date d with no observation dated in
\* [d - lead_time, d] gets a row dated d with every series missing; under
\* never no call of aggregate_with_lead_time is made and the output is the
\* per-date aggregate of the observations inside the bounds.
C12_NoExpansionMissingRow ==
    (entry = "aggregate_polls" /\ ~lead_override) =>
        /\ pc # "expand"
        /\ \A c \in calls : ~c.lead_override
        /\ (pc = "done" /\ interpolation \in {"if_missing", "always"}) =>
              /\ Len(out_df) = Len(dates)
              /\ \A i \in 1..Len(dates) :
                    {j \in 1..Len(polls_df) : /\ InArgBounds(polls_df[j].date)
                                              /\ dates[i] - lead_time <= polls_df[j].date
                                              /\ polls_df[j].date <= dates[i]} = {}
                        => RowIsMissing(out_df[i], dates[i])
        /\ (pc = "done" /\ interpolation = "never") =>
              /\ calls = {}
              /\ \A i \in 1..Len(out_df) :
                    /\ OnDateIdx(polls_df, out_df[i].date) # {}
                    /\ InArgBounds(out_df[i].date)
                    /\ \A s \in Series :
                          IsNaN(out_df[i].vals[s])
                              <=> PresentIdx(polls_df, OnDateIdx(polls_df, out_df[i].date), s) = {}

C12_Witness ==
    /\ PollsReturned
    /\ ~lead_override
    /\ interpolation = "always"
    /\ Len(dates) = 3
    /\ \E i \in 1..Len(dates) :
          /\ WindowIdx(df, dates[i], lead_time) = {}
          /\ \E j \in 1..Len(df) : df[j].date < dates[i] /\ ~IsNaN(df[j].vals["A"])
          /\ RowIsMissing(out_df[i], dates[i])
    /\ \E i \in 1..Len(dates) : ~IsNaN(out_df[i].vals["A"])

\* C13: aggregate_polls on a frame without rows and with both bounds omitted
\* ends in the error raised while the date range is built, under every
\* interpolation policy, and returns nothing.
C13_EmptyFrameNoBoundsFails ==
    (/\ entry = "aggregate_polls"
     /\ polls_df = <<>>
     /\ from_arg.kind = "none"
     /\ to_arg.kind = "none"
     /\ pc # "start") =>
        /\ pc = "error"
        /\ err = "DateRangeError"
        /\ out_df = <<>>
        /\ dates = <<>>

C13_Witness ==
    /\ entry = "aggregate_polls"
    /\ polls_df = <<>>
    /\ from_arg.kind = "none"
    /\ to_arg.kind = "none"
    /\ interpolation = "never"
    /\ pc = "error"
    /\ err = "DateRangeError"

KthIndex(S, k) == CHOOSE i \in S : Cardinality({j \in S : j < i}) = k - 1

\* The positions of the items of the candidates argument that are not a
\* string or not a column label of the frame, and the list the argument
\* stands for: the column labels outside {date, pollster, n} in column order
\* for 'all', the string alone for a string, the items for a list.
SeriesIdx == {i \in 1..Len(columns) : columns[i] \notin {"date", "pollster", "n"}}
IsColumn(x) == \E i \in 1..Len(columns) : columns[i] = x
BadIdx ==
    IF candidates.kind = "str"
    THEN IF candidates.v = "all" \/ IsColumn(candidates.v) THEN {} ELSE {1}
    ELSE {i \in 1..Len(candidates.items) : ~candidates.items[i].str \/ ~IsColumn(candidates.items[i].v)}
FirstBadName ==
    IF candidates.kind = "str" THEN candidates.v
    ELSE candidates.items[KthIndex(BadIdx, 1)].v
IsSelection(list) ==
    IF candidates.kind = "str" /\ candidates.v = "all"
    THEN /\ Len(list) = Cardinality(SeriesIdx)
         /\ \A k \in 1..Len(list) : list[k] = columns[KthIndex(SeriesIdx, k)]
    ELSE IF candidates.kind = "str"
    THEN list = <<candidates.v>>
    ELSE /\ Len(list) = Len(candidates.items)
         /\ \A k \in 1..Len(list) : list[k] = candidates.items[k].v

\* C15: validate_candidates returns the list its argument stands for when
\* every item is a string naming a column, and otherwise raises a ValueError
\* naming the first item that is not; aggregate_polls, once interpolation and
\* agg_type are accepted, raises that same error with no grid, no exact-match
\* table, no call of aggregate_with_lead_time and no output row.
C15_CandidatesValidated ==
    /\ (entry = "validate_candidates" /\ pc # "start") =>
          IF BadIdx = {}
          THEN pc = "done" /\ err = "none" /\ IsSelection(selected)
          ELSE /\ pc = "error"
               /\ err = "ValueError"
               /\ err_arg = FirstBadName
               /\ selected = <<>>
    /\ (/\ entry = "aggregate_polls"
        /\ pc # "start"
        /\ interpolation \in {"if_missing", "always", "never"}
        /\ agg_type \in {"mean", "median"}
        /\ BadIdx # {}) =>
          /\ pc = "error"
          /\ err = "ValueError"
          /\ err_arg = FirstBadName
          /\ df = <<>> /\ dates = <<>> /\ trends_df = <<>> /\ out_df = <<>> /\ calls = {}

C15_Witness ==
    /\ entry = "validate_candidates"
    /\ pc = "error"
    /\ candidates.kind = "list"
    /\ Len(candidates.items) = 2
    /\ candidates.items[1] = Name("B")
    /\ err_arg = "date"
    /\ columns = NoDateColumns

\* C16: aggregate_polls given an interpolation outside {if_missing, always,
\* never} or an agg_type outside {mean, median} raises the ValueError of that
\* argument (interpolation is looked at first) whatever the candidates, the
\* columns, the rows and the bounds are: no candidate list, no filtered frame,
\* no resolved bound, no grid and no output exist when it is raised.
C16_EnumsCheckedFirst ==
    (/\ entry = "aggregate_polls"
     /\ pc # "start"
     /\ \/ interpolation \notin {"if_missing", "always", "never"}
        \/ agg_type \notin {"mean", "median"}) =>
        /\ pc = "error"
        /\ err = "ValueError"
        /\ err_arg = IF interpolation \notin {"if_missing", "always", "never"}
                     THEN "interpolation" ELSE "agg_type"
        /\ selected = <<>>
        /\ df = <<>>
        /\ from_date = NoneBound
        /\ to_date = NoneBound
        /\ dates = <<>>
        /\ trends_df = <<>>
        /\ out_df = <<>>
        /\ calls = {}

C16_Witness ==
    /\ entry = "aggregate_polls"
    /\ pc = "error"
    /\ err_arg = "agg_type"
    /\ candidates = StrSel("C")
    /\ columns = NoDateColumns
    /\ from_arg = Number
    /\ to_arg = BadText
    /\ polls_df # <<>>

\* The exception the kind of one bound leads parse_from_to_date to, and what a
\* bound resolves to.
BoundFails(b) ==
    IF b.kind \in {"badtext", "empty"} THEN "ValueError"
    ELSE IF b.kind \in {"number", "zero"} THEN "TypeError"
    ELSE IF b.kind = "none" /\ ~IsColumn("date") THEN "KeyError"
    ELSE "none"
ResolvesTo(b, isFrom, d) ==
    IF b.kind # "none" THEN d = [kind |-> "date", day |-> b.day]
    ELSE IF polls_df = <<>> THEN d.kind = "NaT"
    ELSE /\ d.kind = "date"
         /\ \E i \in 1..Len(polls_df) : polls_df[i].date = d.day
         /\ \A i \in 1..Len(polls_df) :
               IF isFrom THEN d.day <= polls_df[i].date ELSE d.day >= polls_df[i].date

\* C17: parse_from_to_date resolves each bound by its kind, from_date first:
\* an omitted bound to the least (from) or greatest (to) date of the frame, a
\* text to the date it parses to, a datetime to itself, wherever that date
\* lies; a text that does not parse ends in the parser's ValueError and a
\* value of another type in a TypeError.  With both bounds given the frame is
\* not read, so a frame without rows or without a date column does as well.
C17_BoundsByKind ==
    (entry = "parse_from_to_date" /\ pc # "start") =>
        IF BoundFails(from_arg) # "none"
        THEN pc = "error" /\ err = BoundFails(from_arg)
        ELSE IF BoundFails(to_arg) # "none"
        THEN pc = "error" /\ err = BoundFails(to_arg)
        ELSE /\ pc = "done"
             /\ ResolvesTo(from_arg, TRUE, from_date)
             /\ ResolvesTo(to_arg, FALSE, to_date)

C17_Witness ==
    /\ entry = "parse_from_to_date"
    /\ pc = "done"
    /\ columns = PollColumns
    /\ Len(polls_df) = 2
    /\ polls_df[1].date = 1
    /\ polls_df[2].date = 1
    /\ from_arg = TextBound(2)
    /\ to_arg = DateBound(0)
    /\ from_date = DateBound(2)
    /\ to_date = DateBound(0)

\* C18 as stated: on a frame without a date column parse_from_to_date ends in
\* a KeyError.
C18_AlwaysKeyError ==
    (entry = "parse_from_to_date" /\ ~IsColumn("date") /\ pc # "start") =>
        (pc = "error" /\ err = "KeyError")

\* C18 amended: on a frame without a date column parse_from_to_date ends in a
\* KeyError exactly when it comes to an omitted bound: from_date is omitted,
\* or from_date is a date or a parseable text and to_date is omitted.  With
\* both bounds given the column is never read.
C18_KeyErrorWhenOmitted ==
    (entry = "parse_from_to_date" /\ ~IsColumn("date") /\ pc # "start") =>
        /\ (pc = "error" /\ err = "KeyError")
              <=> \/ from_arg.kind = "none"
                  \/ from_arg.kind \in {"date", "text"} /\ to_arg.kind = "none"
        /\ (from_arg.kind \in {"date", "text"} /\ to_arg.kind \in {"date", "text"}) => pc = "done"

C18_Witness ==
    /\ entry = "parse_from_to_date"
    /\ ~IsColumn("date")
    /\ from_arg = TextBound(1)
    /\ to_arg = NoneBound
    /\ pc = "error"
    /\ err = "KeyError"
    /\ err_arg = "date"

\* A bound that is a date: a datetime or a text that parses to one.
IsDate(b) == b.kind \in {"date", "text"}
\* The positions of the rows a call of filter_by_date has to keep.
KeepIdx ==
    {i \in 1..Len(polls_df) : /\ (IsDate(from_arg) => polls_df[i].date >= from_arg.day)
                              /\ (IsDate(to_arg) => polls_df[i].date <= to_arg.day)}

\* C19: on a frame with a date column filter_by_date, given bounds that are
\* omitted, datetimes or parseable texts, returns, and what it returns is the
\* rows dated from from_date to to_date, both ends included and a bound that
\* is not given imposing nothing, at the positions they had relative to each
\* other: no row inside is dropped, none outside is kept.
C19_RowsInsideInOrder ==
    (entry = "filter_by_date" /\ pc # "start") =>
        /\ (/\ IsColumn("date")
            /\ from_arg.kind \in {"none", "date", "text"}
            /\ to_arg.kind \in {"none", "date", "text"}) => pc = "done"
        /\ pc = "done" =>
              /\ Len(df) = Cardinality(KeepIdx)
              /\ \A k \in 1..Len(df) : df[k] = polls_df[KthIndex(KeepIdx, k)]

C19_Witness ==
    /\ entry = "filter_by_date"
    /\ pc = "done"
    /\ Len(polls_df) = 2
    /\ polls_df[1].date = 2
    /\ polls_df[2].date = 1
    /\ from_arg = TextBound(1)
    /\ to_arg = DateBound(2)
    /\ df = polls_df

\* C20: filter_by_date with both bounds omitted returns the frame as it is,
\* rows or none, date column or none; on a frame without a date column, with
\* bounds that are omitted, datetimes or parseable texts and at least one of
\* them given, it ends in a KeyError.
C20_NoBoundsNoColumnAccess ==
    (entry = "filter_by_date" /\ pc # "start") =>
        /\ (from_arg.kind = "none" /\ to_arg.kind = "none") =>
              (pc = "done" /\ err = "none" /\ df = polls_df)
        /\ (/\ ~IsColumn("date")
            /\ from_arg.kind \in {"none", "date", "text"}
            /\ to_arg.kind \in {"none", "date", "text"}
            /\ IsDate(from_arg) \/ IsDate(to_arg)) =>
              (pc = "error" /\ err = "KeyError" /\ err_arg = "date")

C20_Witness ==
    /\ entry = "filter_by_date"
    /\ ~IsColumn("date")
    /\ from_arg = NoneBound
    /\ to_arg = TextBound(1)
    /\ polls_df # <<>>
    /\ pc = "error"
    /\ err = "KeyError"

\* The outcome a bound of filter_by_date that is no date has to bring about.
MalformedKind(b) ==
    IF b.kind \in {"number", "zero"} THEN "TypeError"
    ELSE IF b.kind \in {"badtext", "empty"} THEN "ValueError"
    ELSE "none"

\* C21: filter_by_date ends in a TypeError for a bound that is neither None,
\* text nor a datetime, and in a ValueError for a text that is no date, the
\* first such bound deciding; a call with such a bound never returns.
C21_MalformedBoundRaises ==
    (/\ entry = "filter_by_date"
     /\ pc # "start"
     /\ IsColumn("date")
     /\ MalformedKind(from_arg) # "none" \/ MalformedKind(to_arg) # "none") =>
        /\ pc = "error"
        /\ err = IF MalformedKind(from_arg) # "none"
                 THEN MalformedKind(from_arg)
                 ELSE MalformedKind(to_arg)

\* The digits and dots of a text cell, and the cell get_polls has to make of
\* a raw cell: missing for a text without a digit or dot left and for a text
\* that writes no decimal, the decimal over 100 otherwise.
KeptChars(raw) == SelectSeq(raw.chars, LAMBDA c : c \in {"0", "1", "."})
WritesDecimal(chars) ==
    /\ \E i \in 1..Len(chars) : chars[i] \in {"0", "1"}
    /\ \A i, j \in 1..Len(chars) : (chars[i] = "." /\ chars[j] = ".") => i = j
NormalCell(raw) ==
    IF ~raw.str THEN Percent(raw.val)
    ELSE IF ~WritesDecimal(KeptChars(raw)) THEN NaN
    ELSE Percent(astype_float(Text(KeptChars(raw))))

\* C22: get_polls raises on no series cell: the call returns, and the cell of
\* every row it returns is the raw cell's text reduced to its digits and
\* dots, read as a decimal and divided by 100, missing when nothing is left
\* or when what is left writes no decimal; a cell that is no text is only
\* divided by 100.
C22_CellNeverRaises ==
    (entry = "get_polls" /\ pc # "start") =>
        /\ pc = "done"
        /\ \A i \in 1..Len(df) : df[i].vals["A"] = NormalCell(polls_df[1].vals["A"])

\* The k-th date of the grid in ascending order, whatever order the loop
\* walked it in.
GridDay(k) == from_date.day + (k - 1) * increment_days

\* The row of grid date d as d, the filtered frame and the arguments fix it.
IsRowFor(row, d) ==
    IF interpolation = "if_missing" /\ OnDateIdx(df, d) # {}
    THEN RowIsAggOf(row, df, OnDateIdx(df, d), d, agg_type)
    ELSE IF NeedsGrowth(df, d, lead_time, lead_override)
    THEN /\ GrownWidths(df, d, lead_time) # {}
         /\ RowIsAggOf(row, df, WindowIdx(df, d, FinalWidth(df, d, lead_time)), d, agg_type)
    ELSE RowIsAggOf(row, df, WindowIdx(df, d, lead_time), d, agg_type)

InsideIdx == {i \in 1..Len(polls_df) : InArgBounds(polls_df[i].date)}
InsideRows == SelectSeq(polls_df, LAMBDA r : InArgBounds(r.date))

\* C24: aggregate_polls filters with the bounds as given and resolves the
\* bounds on what is left: past the preparation the frame worked on is the
\* rows inside the bounds; with only from_date given the resolved to_date is
\* the latest date of a row dated from from_date on, with only to_date given
\* the resolved from_date is the earliest date of a row dated up to to_date;
\* and every returned row is aggregated from rows inside the bounds alone.
C24_FilterThenResolve ==
    (entry = "aggregate_polls" /\ pc \in {"loop", "expand", "done"}) =>
        /\ df = InsideRows
        /\ (from_arg.kind = "date" /\ to_arg.kind = "none") =>
              /\ from_date.day = from_arg.day
              /\ \E i \in InsideIdx : polls_df[i].date = to_date.day
              /\ \A i \in InsideIdx : polls_df[i].date <= to_date.day
        /\ (from_arg.kind = "none" /\ to_arg.kind = "date") =>
              /\ to_date.day = to_arg.day
              /\ \E i \in InsideIdx : polls_df[i].date = from_date.day
              /\ \A i \in InsideIdx : polls_df[i].date >= from_date.day
        /\ (pc = "done" /\ interpolation = "never") =>
              \A k \in 1..Len(out_df) :
                  RowIsAggOf(out_df[k], polls_df,
                             InsideIdx \cap OnDateIdx(polls_df, out_df[k].date),
                             out_df[k].date, agg_type)
        /\ (pc = "done" /\ interpolation # "never") =>
              \A k \in 1..Len(out_df) :
                  \E w \in 0..(MaxDay + 1) :
                      RowIsAggOf(out_df[k], polls_df,
                                 InsideIdx \cap WindowIdx(polls_df, out_df[k].date, w),
                                 out_df[k].date, agg_type)

\* Only from_date is given, an observation is dated the day before it, and
\* the row of the first grid date, whose window reaches back to that day, is
\* all missing.
C24_Witness ==
    /\ PollsReturned
    /\ interpolation = "always"
    /\ from_arg = DateBound(1)
    /\ to_arg = NoneBound
    /\ to_date = DateBound(2)
    /\ lead_time = 1
    /\ \E i \in 1..Len(polls_df) :
          /\ polls_df[i].date = 0
          /\ \E s \in Series : ~IsNaN(polls_df[i].vals[s])
    /\ out_df # <<>>
    /\ RowIsMissing(out_df[1], 1)

\* C25: with expansion on, a call of aggregate_polls under if_missing or
\* always that has entered the for loop returns, with one row per grid date,
\* also when from_date is given and earlier than every observation left by
\* the filter.  Refuted there: for a grid date with every observation dated
\* after it the while loop of aggregate_with_lead_time is never left.
C25_EveryGridDateEmitted ==
    []((/\ entry = "aggregate_polls"
        /\ lead_override
        /\ interpolation \in {"if_missing", "always"}
        /\ pc = "loop") => <>(pc = "done" /\ Len(out_df) = Len(dates)))

\* The dates of the rows dated on or before the target date of the call.
DatesUpTo == {polls_df[i].date : i \in {j \in 1..Len(polls_df) : polls_df[j].date <= a_date}}
LatestUpTo == CHOOSE d \in DatesUpTo : \A e \in DatesUpTo : e <= d

\* C26: when the first window of aggregate_with_lead_time is empty, expansion
\* is on and some row is dated on or before the target date, the call
\* returns with the window grown to the first width that reaches a row, the
\* distance to the latest date with a row before the target; the row returned
\* is the aggregate of the rows dated on that date alone and carries the
\* target date.
C26_StopsAtLatestDate ==
    (LeadReturned /\ lead_override /\ FirstWindow = {} /\ DatesUpTo # {}) =>
        /\ Len(result) = 1
        /\ LatestUpTo < a_date - lead_time
        /\ a_lead = a_date - LatestUpTo
        /\ LastWindow = OnDateIdx(polls_df, LatestUpTo)
        /\ RowIsAggOf(result[1], polls_df, OnDateIdx(polls_df, LatestUpTo), a_date, agg_type)

\* The window grew past the width given, an older row with a value of its
\* own stayed outside, and the result is not the aggregate over both dates.
C26_Witness ==
    /\ LeadReturned
    /\ lead_override
    /\ FirstWindow = {}
    /\ a_lead > lead_time
    /\ \E i \in 1..Len(polls_df) :
          /\ polls_df[i].date < LatestUpTo
          /\ ~IsNaN(polls_df[i].vals["A"])
    /\ ~RowIsAggOf(result[1], polls_df,
                   {i \in 1..Len(polls_df) : polls_df[i].date <= a_date}, a_date, agg_type)

\* The labels of the row aggregate_with_lead_time returned, and the labels
\* asked for: the date and the candidates.
ResultFields == {"date"} \cup DOMAIN result[1].vals
RequestedFields ==
    {"date"} \cup (IF candidates = All
                   THEN {c \in ToSet(columns) : c \notin {"date", "pollster", "n"}}
                   ELSE {candidates.items[i].v : i \in 1..Len(candidates.items)})

\* C27: the row aggregate_with_lead_time returns has the date and exactly the
\* candidates asked for as its fields, on the no-data return and on the
\* aggregate alike, for 'all' and for a list of series columns.  Refuted for
\* a list that leaves a series column out: the aggregate is taken over every
\* column of the selection.
C27_SameFieldsOnEveryPath ==
    LeadReturned => (Len(result) = 1 /\ ResultFields = RequestedFields)

\* C28: when the resolved from_date is later than the resolved to_date,
\* aggregate_polls under if_missing or always returns a frame without rows
\* and raises nothing.  Refuted: the sort after the loop finds no date column
\* in the empty frame.
C28_EmptyGridReturnsEmpty ==
    (/\ entry = "aggregate_polls"
     /\ interpolation \in {"if_missing", "always"}
     /\ pc # "start"
     /\ from_date.kind = "date"
     /\ to_date.kind = "date"
     /\ from_date.day > to_date.day) =>
        /\ pc = "done"
        /\ err = "none"
        /\ out_df = <<>>

====
